---------------------------- MODULE Spec2Model ----------------------------
(***************************************************************************)
(* ReasonLoop front end: the reasoning-session synchronisation engine.     *)
(*                                                                         *)
(*   - the Session Store (stores/reasoningStore.ts, a zustand store),      *)
(*   - the Connection Manager (hooks/useWebSocket.ts, the                  *)
(*     useReasoningWebSocket hook: connect, the socket callbacks, the      *)
(*     session effect and the unmount cleanup),                            *)
(*   - the callers that drive both (TaskInput.handleSubmit and the         *)
(*     ReasoningViewer's stop / pause / resume / new-session handlers).    *)
(*                                                                         *)
(* Conventions.  A nullable value is a sequence of length at most one      *)
(* (<<>> is null).  Text is a TLA+ string, concatenated with \o.  Scores   *)
(* are counted in tenths (7.5 is 75).  A session id is a positive number,  *)
(* NoSession is the null id.  JavaScript runs every callback to            *)
(* completion, so each handler is one action.                              *)
(***************************************************************************)
EXTENDS Integers, Sequences, FiniteSets, Bags, TLC

VARIABLES
    store,     \* the zustand store (reasoningStore.ts)
    conn,      \* the hook's refs: wsRef, connectedSessionRef, isIntentionalCloseRef, reconnectAttempts
    sockets,   \* every WebSocket created so far: its session id and readyState
    timers,    \* pending setTimeout(() => connect(sid), delay) callbacks, a bag
    ui,        \* the React side: mounted, the effect's last dependencies, commands in flight
    obs        \* history of what the handlers did (observation only, never read by a handler)

vars == <<store, conn, sockets, timers, ui, obs>>

---------------------------------------------------------------------------
(* Bounds of the model *)

MaxSessions == 2     \* session ids the server issues
MaxSockets == 4      \* sockets created in one run
MaxIteration == 0    \* largest iteration index an event carries
MaxLen == 5          \* longest streaming buffer
MaxInFlight == 1     \* pause (resume) commands awaiting their answer
MaxRotation == 5     \* largest iteration the rotation is computed for

(* Program constants *)

NoSession == 0               \* sessionId: null
maxReconnectAttempts == 3
BackoffMs == 1000

Sessions == 1..MaxSessions
IterIdx == (0 - 1)..MaxIteration      \* -1 is the council pre-phase
Chunks == {"Hel", "lo"}
Finals == {"Hello", "xyz"}

Min(a, b) == IF a < b THEN a ELSE b

---------------------------------------------------------------------------
(* Session Store *)

Critique(score) == [score |-> score]

NoIteration ==
    [present |-> FALSE, number |-> 0, generation |-> "", generation_model |-> <<>>,
     critique |-> <<>>, critique_model |-> <<>>, isGenerating |-> FALSE, isCritiquing |-> FALSE]

NoIterations == [i \in IterIdx |-> NoIteration]

defaultConfig ==
    [generator_model |-> "claude-3.7-sonnet", critic_model |-> "o3",
     refiner_model |-> "claude-opus-4.5"]

InitialStore ==
    [sessionId |-> NoSession, status |-> "idle", iterations |-> NoIterations,
     currentIteration |-> 0, finalOutput |-> <<>>, finalScore |-> <<>>,
     streamingContent |-> "", streamingType |-> "null", config |-> defaultConfig,
     wsConnected |-> FALSE, needsWebSocket |-> FALSE]

\* JavaScript's %: the result takes the sign of the dividend.
JsMod(a, n) == IF a >= 0 THEN a % n ELSE 0 - ((0 - a) % n)

\* models[i] of a three-element array: undefined (<<>>) outside 0..2.
ModelAt(models, i) == IF i \in 0..2 THEN <<models[i + 1]>> ELSE <<>>

\* The roles without rotation: the configured generator and critic always.
getRotatedModelsFixed(config, iteration) ==
    LET models == <<config.generator_model, config.critic_model, config.refiner_model>>
    IN  [generator |-> ModelAt(models, 0), critic |-> ModelAt(models, 1)]

getRotatedModels(config, iteration) ==
    LET models == <<config.generator_model, config.critic_model, config.refiner_model>>
        genIdx == JsMod(iteration, 3)
        criticIdx == JsMod(iteration + 1, 3)
    IN  [generator |-> ModelAt(models, genIdx), critic |-> ModelAt(models, criticIdx)]

\* ModelTriad: the role shown on slot 0 (Model A), 1 (Model B), 2 (Model C).
TriadRole(currentIteration, slot) ==
    LET genIdx == JsMod(currentIteration, 3)
        critIdx == JsMod(currentIteration + 1, 3)
    IN  IF genIdx = slot THEN "Generator"
        ELSE IF critIdx = slot THEN "Critic" ELSE "Refiner"

\* ModelTriad: SLOTS, each with the configured model and its current role.
ModelTriad(config, currentIteration) ==
    LET values == <<config.generator_model, config.critic_model, config.refiner_model>>
    IN  [slot \in 0..2 |->
            [value |-> values[slot + 1], role |-> TriadRole(currentIteration, slot)]]

\* The models the selectors offer.
Models == {"claude-3.7-sonnet", "o3", "claude-opus-4.5"}

ConfigKeys == {"generator_model", "critic_model", "refiner_model"}

\* setConfig: { ...state.config, ...config }
setConfig(st, config) ==
    [st EXCEPT !.config =
         [k \in DOMAIN st.config |-> IF k \in DOMAIN config THEN config[k] ELSE st.config[k]]]

\* [...get().iterations]: the spread copies the array's indices 0..length-1 and
\* drops a property stored under the key -1.  The objects are shared.
CopyIterations(its) == [i \in IterIdx |-> IF i < 0 THEN NoIteration ELSE its[i]]

setSessionId(st, id, needsWebSocket) ==
    [st EXCEPT !.sessionId = id, !.needsWebSocket = needsWebSocket]

setStatus(st, status) == [st EXCEPT !.status = status]

setWsConnected(st, connected) == [st EXCEPT !.wsConnected = connected]

clearIterations(st) ==
    [st EXCEPT !.iterations = NoIterations, !.currentIteration = 0,
               !.finalOutput = <<>>, !.finalScore = <<>>]

startGeneration(st, iteration) ==
    LET iterations == CopyIterations(st.iterations)
        rotated == getRotatedModels(st.config, iteration)
        opened ==
            IF ~iterations[iteration].present
            THEN [present |-> TRUE, number |-> iteration, generation |-> "",
                  generation_model |-> rotated.generator, critique |-> <<>>,
                  critique_model |-> rotated.critic,
                  isGenerating |-> TRUE, isCritiquing |-> FALSE]
            ELSE [iterations[iteration] EXCEPT !.isGenerating = TRUE]
    IN  [st EXCEPT !.iterations = [iterations EXCEPT ![iteration] = opened],
                   !.currentIteration = iteration,
                   !.streamingContent = "",
                   !.streamingType = "generation",
                   !.status = "running"]

appendGenerationChunk(st, chunk) ==
    LET streamingContent == st.streamingContent \o chunk
        iterations == CopyIterations(st.iterations)
        current == st.currentIteration
    IN  [st EXCEPT !.streamingContent = streamingContent,
                   !.iterations =
                       IF iterations[current].present
                       THEN [iterations EXCEPT ![current].generation = streamingContent]
                       ELSE iterations]

\* generation_complete appending its content to the accumulated text.
completeGenerationAppend(st, content) ==
    LET iterations == CopyIterations(st.iterations)
        current == st.currentIteration
    IN  [st EXCEPT !.iterations =
                       IF iterations[current].present
                       THEN [iterations EXCEPT ![current].generation = @ \o content,
                                               ![current].isGenerating = FALSE]
                       ELSE iterations,
                   !.streamingContent = "",
                   !.streamingType = "null"]

completeGeneration(st, content) ==
    LET iterations == CopyIterations(st.iterations)
        current == st.currentIteration
    IN  [st EXCEPT !.iterations =
                       IF iterations[current].present
                       THEN [iterations EXCEPT ![current].generation = content,
                                               ![current].isGenerating = FALSE]
                       ELSE iterations,
                   !.streamingContent = "",
                   !.streamingType = "null"]

startCritique(st) ==
    LET iterations == CopyIterations(st.iterations)
        current == st.currentIteration
    IN  [st EXCEPT !.iterations =
                       IF iterations[current].present
                       THEN [iterations EXCEPT ![current].isCritiquing = TRUE]
                       ELSE iterations,
                   !.streamingContent = "",
                   !.streamingType = "critique"]

\* critique_chunk written into the current iteration as it streams.
appendCritiqueChunkIntoIteration(st, chunk) ==
    LET streamingContent == st.streamingContent \o chunk
        iterations == CopyIterations(st.iterations)
        current == st.currentIteration
    IN  [st EXCEPT !.streamingContent = streamingContent,
                   !.iterations =
                       IF iterations[current].present
                       THEN [iterations EXCEPT ![current].critique = <<Critique(0)>>]
                       ELSE iterations]

appendCritiqueChunk(st, chunk) ==
    [st EXCEPT !.streamingContent = st.streamingContent \o chunk]

completeCritique(st, critique) ==
    LET iterations == CopyIterations(st.iterations)
        current == st.currentIteration
    IN  [st EXCEPT !.iterations =
                       IF iterations[current].present
                       THEN [iterations EXCEPT ![current].critique = <<critique>>,
                                               ![current].isCritiquing = FALSE]
                       ELSE iterations,
                   !.streamingContent = "",
                   !.streamingType = "null"]

\* iteration_complete appending its content to the generation text.
completeIterationAppend(st, content, score, critique) ==
    LET iterations == CopyIterations(st.iterations)
        current == st.currentIteration
    IN  [st EXCEPT !.iterations =
                       IF iterations[current].present
                       THEN [iterations EXCEPT ![current].generation = @ \o content,
                                               ![current].critique = <<critique>>,
                                               ![current].isGenerating = FALSE,
                                               ![current].isCritiquing = FALSE]
                       ELSE iterations]

completeIteration(st, content, score, critique) ==
    LET iterations == CopyIterations(st.iterations)
        current == st.currentIteration
    IN  [st EXCEPT !.iterations =
                       IF iterations[current].present
                       THEN [iterations EXCEPT ![current].generation = content,
                                               ![current].critique = <<critique>>,
                                               ![current].isGenerating = FALSE,
                                               ![current].isCritiquing = FALSE]
                       ELSE iterations]

completeSession(st, output, score) ==
    [st EXCEPT !.finalOutput = <<output>>, !.finalScore = <<score>>,
               !.status = "completed", !.streamingContent = "",
               !.streamingType = "null"]

reset(st) ==
    [InitialStore EXCEPT !.config = st.config]


---------------------------------------------------------------------------
(* Connection Manager.  A handler is a function from the world it runs in  *)
(* (store, refs, sockets, timers, history) to the world it leaves.         *)

InitialConn ==
    [wsRef |-> 0, connectedSessionRef |-> NoSession,
     isIntentionalCloseRef |-> FALSE, reconnectAttempts |-> 0]

Live(sock) == sock.readyState \in {"OPEN", "CONNECTING"}

\* wsRef.current?.readyState === OPEN || ... === CONNECTING
RefLive(w) == w.conn.wsRef # 0 /\ Live(w.sockets[w.conn.wsRef])

\* new WebSocket(url): a socket in readyState CONNECTING.
createReasoningWebSocket(sid) == [sid |-> sid, readyState |-> "CONNECTING"]

\* ws.close(): OPEN and CONNECTING sockets start closing; the close callback
\* runs later.  The history notes the call and the flag it was made under.
closeSocket(w, i) ==
    [w EXCEPT !.sockets[i].readyState =
                  IF Live(w.sockets[i]) THEN "CLOSING" ELSE w.sockets[i].readyState,
              !.obs.effect.ops =
                  Append(@, [op |-> "close", sock |-> i,
                             intentional |-> w.conn.isIntentionalCloseRef])]

\* connect without its early return: a socket is created although one is live.
connectUnguarded(w, sid) ==
    LET id == Len(w.sockets) + 1
    IN  [w EXCEPT !.conn.isIntentionalCloseRef = FALSE,
                  !.sockets = Append(@, createReasoningWebSocket(sid)),
                  !.conn.wsRef = id,
                  !.conn.connectedSessionRef = sid,
                  !.obs.effect.ops =
                      Append(@, [op |-> "create", sock |-> id, intentional |-> FALSE])]

connect(w, sid) ==
    IF RefLive(w)
    THEN w
    ELSE LET id == Len(w.sockets) + 1
         IN  [w EXCEPT !.conn.isIntentionalCloseRef = FALSE,
                       !.sockets = Append(@, createReasoningWebSocket(sid)),
                       !.conn.wsRef = id,
                       !.conn.connectedSessionRef = sid,
                       !.obs.effect.ops =
                           Append(@, [op |-> "create", sock |-> id, intentional |-> FALSE])]

onopen(w, s) ==
    [w EXCEPT !.sockets[s].readyState = "OPEN",
              !.conn.reconnectAttempts = 0,
              !.store = setWsConnected(@, TRUE),
              !.obs.streak = 0,
              !.obs.streakLog = <<>>]

\* The delay computed from the counter as it was before the increment.
ReconnectDelayBeforeIncrement(attempts) == BackoffMs * (attempts - 1)

\* The delay of the reconnection an onclose schedules, read after the increment.
ReconnectDelay(attempts) == BackoffMs * attempts

\* onclose scheduling a reconnection whatever the status.
oncloseAnyStatus(w, s) ==
    LET sid == w.sockets[s].sid
        st == setWsConnected(w.store, FALSE)
        unmarked == ~w.conn.isIntentionalCloseRef
        bound == w.conn.connectedSessionRef = sid
        reconnect ==
            /\ unmarked
            /\ bound
            /\ w.conn.reconnectAttempts < maxReconnectAttempts
        attempts == w.conn.reconnectAttempts + 1
        counted == unmarked /\ bound /\ w.obs.streak >= 0
        w1 == [w EXCEPT !.sockets[s].readyState = "CLOSED",
                        !.store = st,
                        !.obs.streak =
                            IF ~counted THEN @
                            ELSE IF st.status = "running" THEN @ + 1 ELSE 0 - 1,
                        !.obs.streakLog =
                            IF counted /\ reconnect
                            THEN Append(@, ReconnectDelay(attempts)) ELSE @]
    IN  IF reconnect
        THEN [w1 EXCEPT !.conn.reconnectAttempts = attempts,
                        !.timers = @ (+) SetToBag({[sid |-> sid,
                                                    delay |-> ReconnectDelay(attempts)]})]
        ELSE w1

onclose(w, s) ==
    LET sid == w.sockets[s].sid
        st == setWsConnected(w.store, FALSE)
        unmarked == ~w.conn.isIntentionalCloseRef
        bound == w.conn.connectedSessionRef = sid
        reconnect ==
            /\ unmarked
            /\ st.status = "running"
            /\ bound
            /\ w.conn.reconnectAttempts < maxReconnectAttempts
        attempts == w.conn.reconnectAttempts + 1
        counted == unmarked /\ bound /\ w.obs.streak >= 0
        w1 == [w EXCEPT !.sockets[s].readyState = "CLOSED",
                        !.store = st,
                        !.obs.streak =
                            IF ~counted THEN @
                            ELSE IF st.status = "running" THEN @ + 1 ELSE 0 - 1,
                        !.obs.streakLog =
                            IF counted /\ reconnect
                            THEN Append(@, ReconnectDelay(attempts)) ELSE @]
    IN  IF reconnect
        THEN [w1 EXCEPT !.conn.reconnectAttempts = attempts,
                        !.timers = @ (+) SetToBag({[sid |-> sid,
                                                    delay |-> ReconnectDelay(attempts)]})]
        ELSE w1

\* ws.onerror surfacing the failure as a session error.
onerrorFatal(w, s) ==
    [w EXCEPT !.store = setStatus(@, "error"), !.conn.isIntentionalCloseRef = TRUE]

\* ws.onerror: logs.
onerror(w, s) == w

\* The setTimeout callback of onclose: connect(sid).
ontimer(w, t) ==
    LET w1 == connect([w EXCEPT !.timers = @ (-) SetToBag({t})], t.sid)
    IN  [w1 EXCEPT !.obs.streak =
                       IF w1.conn.connectedSessionRef # w.conn.connectedSessionRef
                       THEN 0 - 1 ELSE @]

HeldSid(w) == IF w.conn.wsRef # 0 THEN w.sockets[w.conn.wsRef].sid ELSE NoSession

\* The session effect closing a superseded socket without marking the close
\* intentional.
sessionEffectUnmarked(w, sessionId, shouldConnect) ==
    LET w0 == [w EXCEPT !.obs.effect =
                   [held |-> w.conn.wsRef, heldSid |-> HeldSid(w),
                    target |-> IF shouldConnect THEN sessionId ELSE NoSession, ops |-> <<>>]]
    IN
    IF sessionId = NoSession \/ ~shouldConnect
    THEN LET w1 == IF w0.conn.wsRef # 0
                   THEN LET wa == [w0 EXCEPT !.conn.isIntentionalCloseRef = TRUE]
                            wb == closeSocket(wa, wa.conn.wsRef)
                        IN  [wb EXCEPT !.conn.wsRef = 0]
                   ELSE w0
         IN  [w1 EXCEPT !.conn.connectedSessionRef = NoSession,
                        !.obs.requested = NoSession]
    ELSE IF w0.conn.connectedSessionRef = sessionId
            /\ w0.conn.wsRef # 0 /\ w0.sockets[w0.conn.wsRef].readyState = "OPEN"
    THEN [w0 EXCEPT !.obs.requested = sessionId]
    ELSE LET w1 == IF w0.conn.wsRef # 0 /\ w0.conn.connectedSessionRef # sessionId
                   THEN [closeSocket(w0, w0.conn.wsRef) EXCEPT !.conn.wsRef = 0]
                   ELSE w0
             w2 == [w1 EXCEPT !.conn.reconnectAttempts = 0,
                              !.obs.requested = sessionId,
                              !.obs.streak = 0,
                              !.obs.streakLog = <<>>]
         IN  connect(w2, sessionId)

\* The body of useEffect(..., [sessionId, shouldConnect, connect]).
sessionEffect(w, sessionId, shouldConnect) ==
    LET w0 == [w EXCEPT !.obs.effect =
                   [held |-> w.conn.wsRef, heldSid |-> HeldSid(w),
                    target |-> IF shouldConnect THEN sessionId ELSE NoSession, ops |-> <<>>]]
    IN
    IF sessionId = NoSession \/ ~shouldConnect
    THEN LET w1 == IF w0.conn.wsRef # 0
                   THEN LET wa == [w0 EXCEPT !.conn.isIntentionalCloseRef = TRUE]
                            wb == closeSocket(wa, wa.conn.wsRef)
                        IN  [wb EXCEPT !.conn.wsRef = 0]
                   ELSE w0
         IN  [w1 EXCEPT !.conn.connectedSessionRef = NoSession,
                        !.obs.requested = NoSession]
    ELSE IF w0.conn.connectedSessionRef = sessionId
            /\ w0.conn.wsRef # 0 /\ w0.sockets[w0.conn.wsRef].readyState = "OPEN"
    THEN [w0 EXCEPT !.obs.requested = sessionId]
    ELSE LET w1 == IF w0.conn.wsRef # 0 /\ w0.conn.connectedSessionRef # sessionId
                   THEN LET wa == [w0 EXCEPT !.conn.isIntentionalCloseRef = TRUE]
                            wb == closeSocket(wa, wa.conn.wsRef)
                        IN  [wb EXCEPT !.conn.wsRef = 0]
                   ELSE w0
             w2 == [w1 EXCEPT !.conn.reconnectAttempts = 0,
                              !.obs.requested = sessionId,
                              !.obs.streak = 0,
                              !.obs.streakLog = <<>>]
         IN  connect(w2, sessionId)

\* The cleanup of the mount effect.
unmountCleanup(w) ==
    LET w0 == [w EXCEPT !.obs.effect =
                   [held |-> w.conn.wsRef, heldSid |-> HeldSid(w),
                    target |-> NoSession, ops |-> <<>>],
                        !.obs.requested = NoSession]
        wa == [w0 EXCEPT !.conn.isIntentionalCloseRef = TRUE]
    IN  IF wa.conn.wsRef # 0
        THEN [closeSocket(wa, wa.conn.wsRef) EXCEPT !.conn.wsRef = 0]
        ELSE wa


---------------------------------------------------------------------------
(* Inbound events (ReasoningEvent).  score and critique are optional.  An  *)
(* event names the session it belongs to; the first session's id unless    *)
(* For gives another.                                                      *)

Ev(type, iteration, content, score, critique) ==
    [type |-> type, session_id |-> 1, iteration |-> iteration, content |-> content,
     score |-> score, critique |-> critique]

Plain(type) == Ev(type, 0, "", <<>>, <<>>)

\* The same event sent for the session sid.
For(data, sid) == [data EXCEPT !.session_id = sid]

\* The 13 types ws.onmessage has a case for.
KnownTypes ==
    {"session_started", "generation_start", "generation_chunk", "generation_complete",
     "critique_start", "critique_chunk", "critique_complete", "iteration_complete",
     "session_complete", "session_stopped", "session_paused", "session_resumed",
     "session_error"}

\* Events of types the switch has no case for.
UnknownEvents ==
    {Ev(t, 0, "Hello", <<75>>, <<Critique(75)>>) :
         t \in {"heartbeat", "feedback_injected", "SESSION_ERROR"}}

\* The text of a message (event.data).  A well-formed text is the JSON of an
\* event; a malformed one is the JSON of an event cut short, which JSON.parse
\* rejects.
stringify(data) == [wellFormed |-> TRUE, value |-> data]

Truncated(data) == [wellFormed |-> FALSE, value |-> data]

MalformedTexts == {Truncated(Plain(t)) : t \in {"session_error", "session_paused"}}

\* JSON.parse(text): the event, or <<>> when it throws a SyntaxError.
JSONparse(text) == IF text.wellFormed THEN <<text.value>> ELSE <<>>

\* The scenario of the spec's section 8.
Scenario ==
    << Plain("session_started"),
       Ev("generation_start", 0, "", <<>>, <<>>),
       Ev("generation_chunk", 0, "Hel", <<>>, <<>>),
       Ev("generation_chunk", 0, "lo", <<>>, <<>>),
       Ev("generation_complete", 0, "Hello", <<>>, <<>>),
       Plain("critique_start"),
       Ev("critique_complete", 0, "", <<>>, <<Critique(75)>>),
       Ev("session_complete", 0, "Hello", <<75>>, <<>>) >>

\* Every event the reducer is fed in SpecStore.
StoreEvents ==
    {Plain(t) : t \in {"session_started", "critique_start", "session_stopped",
                       "session_paused", "session_resumed", "session_error", "heartbeat"}}
    \cup {Ev("generation_start", i, "", <<>>, <<>>) : i \in IterIdx}
    \cup {Ev("generation_chunk", 0, c, <<>>, <<>>) : c \in Chunks}
    \cup {Ev("critique_chunk", 0, c, <<>>, <<>>) : c \in Chunks}
    \cup {Ev("generation_complete", 0, c, <<>>, <<>>) : c \in Finals}
    \cup {Ev("critique_complete", 0, "", <<>>, k) : k \in {<<>>, <<Critique(75)>>}}
    \cup {Ev("iteration_complete", 0, "Hello", k[1], k[2]) :
              k \in {<< <<75>>, <<Critique(75)>> >>,
                     << <<>>, <<Critique(75)>> >>,
                     << <<75>>, <<>> >>}}
    \cup {Ev("session_complete", 0, "Hello", k, <<>>) : k \in {<<>>, <<75>>}}

\* The events that move the status, fed to SpecStatus.
StatusEvents ==
    {Plain(t) : t \in {"session_started", "session_stopped", "session_paused",
                       "session_resumed", "session_error", "heartbeat"}}
    \cup {Ev("generation_start", 0, "", <<>>, <<>>),
          Ev("session_complete", 0, "Hello", <<75>>, <<>>)}

\* The events of a short session, fed to SpecSession.
SessionEvents ==
    {Ev("generation_start", 0, "", <<>>, <<>>),
     Ev("generation_complete", 0, "Hello", <<>>, <<>>),
     Ev("critique_complete", 0, "", <<>>, <<Critique(75)>>),
     Ev("session_complete", 0, "Hello", <<75>>, <<>>)}

\* The events that open and fill iterations, fed to SpecModels.
ModelEvents ==
    {Ev("generation_start", i, "", <<>>, <<>>) : i \in IterIdx}
    \cup {Plain("critique_start"),
          Ev("generation_complete", 0, "Hello", <<>>, <<>>),
          Ev("critique_complete", 0, "", <<>>, <<Critique(75)>>),
          Ev("iteration_complete", 0, "Hello", <<75>>, <<Critique(75)>>)}

\* The events of the generation's end and the critique phase, fed to
\* SpecCritique.
CritiqueEvents ==
    {data \in StoreEvents :
         data.type \in {"generation_start", "generation_complete", "critique_start",
                        "critique_chunk", "critique_complete", "iteration_complete"}}

\* The events the connection's life depends on, fed to Spec: the status
\* becomes running, paused or terminal, and a terminal event marks the close
\* intentional.
ConnEvents ==
    {Plain(t) : t \in {"session_started", "session_paused", "session_error"}}

\* data.score || 0
ScoreOrZero(score) == IF score = <<>> THEN 0 ELSE score[1]

MarkIntentional(w) == [w EXCEPT !.conn.isIntentionalCloseRef = TRUE]

\* The switch of ws.onmessage on a parsed event.
dispatch(w, data) ==
    CASE data.type = "session_started" ->
            [w EXCEPT !.store = setStatus(@, "running")]
      [] data.type = "generation_start" ->
            [w EXCEPT !.store = startGeneration(@, data.iteration)]
      [] data.type = "generation_chunk" ->
            [w EXCEPT !.store = appendGenerationChunk(@, data.content)]
      [] data.type = "generation_complete" ->
            [w EXCEPT !.store = completeGeneration(@, data.content)]
      [] data.type = "critique_start" ->
            [w EXCEPT !.store = startCritique(@)]
      [] data.type = "critique_chunk" ->
            [w EXCEPT !.store = appendCritiqueChunk(@, data.content)]
      [] data.type = "critique_complete" ->
            IF data.critique # <<>>
            THEN [w EXCEPT !.store = completeCritique(@, data.critique[1])]
            ELSE w
      [] data.type = "iteration_complete" ->
            IF data.critique # <<>> /\ data.score # <<>>
            THEN [w EXCEPT !.store =
                      completeIteration(@, data.content, data.score[1], data.critique[1])]
            ELSE w
      [] data.type = "session_complete" ->
            MarkIntentional([w EXCEPT !.store =
                                 completeSession(@, data.content, ScoreOrZero(data.score))])
      [] data.type = "session_stopped" ->
            MarkIntentional([w EXCEPT !.store = setStatus(@, "stopped")])
      [] data.type = "session_paused" ->
            [w EXCEPT !.store = setStatus(@, "paused")]
      [] data.type = "session_resumed" ->
            [w EXCEPT !.store = setStatus(@, "running")]
      [] data.type = "session_error" ->
            MarkIntentional([w EXCEPT !.store = setStatus(@, "error")])
      [] OTHER -> w

\* How far the events applied since the initial store follow the scenario
\* (the number of its events applied, or -1 once anything else happened).
ScenarioAfterEvent(pos, data) ==
    IF pos >= 0 /\ pos < Len(Scenario) /\ data = Scenario[pos + 1] THEN pos + 1 ELSE 0 - 1

ScenarioAfterLocal(pos) == IF pos = 0 THEN 0 ELSE 0 - 1

\* ws.onmessage treating an event of an unknown type as a session error.
onmessageRejectingUnknown(w, event) ==
    LET parsed == JSONparse(event.data)
    IN  IF parsed = <<>>
        THEN w
        ELSE IF parsed[1].type \notin KnownTypes
        THEN MarkIntentional([w EXCEPT !.store = setStatus(@, "error")])
        ELSE [dispatch(w, parsed[1]) EXCEPT
                  !.obs.scenario = ScenarioAfterEvent(@, parsed[1])]

\* ws.onmessage surfacing a parse failure as a session error.
onmessageFatal(w, event) ==
    LET parsed == JSONparse(event.data)
    IN  IF parsed = <<>>
        THEN MarkIntentional([w EXCEPT !.store = setStatus(@, "error")])
        ELSE [dispatch(w, parsed[1]) EXCEPT
                  !.obs.scenario = ScenarioAfterEvent(@, parsed[1])]

\* ws.onmessage applying an event only while the hook is bound to a session.
onmessageWhenBound(w, event) ==
    LET parsed == JSONparse(event.data)
    IN  IF parsed = <<>> \/ w.conn.connectedSessionRef = NoSession
        THEN w
        ELSE [dispatch(w, parsed[1]) EXCEPT
                  !.obs.scenario = ScenarioAfterEvent(@, parsed[1])]

\* ws.onmessage: parse, dispatch; the catch logs a failure and returns.
onmessage(w, event) ==
    LET parsed == JSONparse(event.data)
    IN  IF parsed = <<>>
        THEN w
        ELSE [dispatch(w, parsed[1]) EXCEPT
                  !.obs.scenario = ScenarioAfterEvent(@, parsed[1])]

---------------------------------------------------------------------------
(* The state after construction: the initial store, fresh refs, and the    *)
(* session effect already run once on mount with no session id.            *)

NoEffect == [held |-> 0, heldSid |-> NoSession, target |-> NoSession, ops |-> <<>>]

InitialObs ==
    [requested |-> NoSession,
     effect |-> NoEffect,
     streak |-> 0 - 1, streakLog |-> <<>>,
     scenario |-> 0,
     completedOn |-> 0,
     unknownParity |-> FALSE, dropParity |-> FALSE,
     droppedOn |-> 0, appliedAfterDrop |-> FALSE,
     rotation |-> <<>>,
     replayed |-> TRUE,
     errorParity |-> FALSE]

InitialUi ==
    [mounted |-> TRUE, lastDeps |-> <<NoSession, FALSE>>, isSubmitting |-> FALSE,
     nextId |-> 1, pendingPause |-> 0, pendingResume |-> 0,
     pendingAnalysis |-> 0, pendingStop |-> <<>>,
     pendingOffline |-> 0, pendingOnline |-> 0, isRetrying |-> FALSE,
     pendingLoad |-> <<>>]

Init ==
    /\ store = InitialStore
    /\ conn = InitialConn
    /\ sockets = <<>>
    /\ timers = EmptyBag
    /\ ui = InitialUi
    /\ obs = InitialObs

\* The fields the reducer computes.
Reduced(st) ==
    [status |-> st.status, iterations |-> st.iterations,
     currentIteration |-> st.currentIteration, finalOutput |-> st.finalOutput,
     finalScore |-> st.finalScore, streamingContent |-> st.streamingContent]

\* A second copy of the store, in the state st, behind a hook that has just
\* been constructed: no socket, no timer, fresh refs.
Replay(st) ==
    [store |-> st, conn |-> InitialConn, sockets |-> <<>>, timers |-> EmptyBag,
     ui |-> InitialUi, obs |-> InitialObs]

\* The socket s receives the text: its onmessage runs.  The history notes the
\* socket that received session_complete, whether an event was applied on a
\* socket that had dropped a malformed message before, and whether every
\* event so far left the store the second copy would have.
receive(w, s, text) ==
    LET parsed == JSONparse(text)
        w1 == onmessage(w, [data |-> text])
    IN  IF parsed = <<>>
        THEN w1
        ELSE [w1 EXCEPT
                  !.obs.completedOn =
                      IF parsed[1].type = "session_complete" THEN s ELSE @,
                  !.obs.appliedAfterDrop = @ \/ w.obs.droppedOn = s,
                  !.obs.replayed =
                      @ /\ Reduced(w1.store)
                             = Reduced(onmessage(Replay(w.store), [data |-> text]).store)]

\* The world a handler runs in.  obs.effect describes the latest step only,
\* so it starts cleared.
World ==
    [store |-> store, conn |-> conn, sockets |-> sockets, timers |-> timers, ui |-> ui,
     obs |-> [obs EXCEPT !.effect = NoEffect]]

\* ReasoningViewer: shouldConnectWs
shouldConnectWs(st) == st.needsWebSocket /\ st.status \in {"idle", "running"}

EffectDeps(st) == <<st.sessionId, shouldConnectWs(st)>>

\* A store change re-renders the mounted viewer before the next callback runs
\* (zustand subscribes through useSyncExternalStore); the session effect runs
\* in that render when one of its dependencies changed.
Render(w) ==
    IF w.ui.mounted /\ EffectDeps(w.store) # w.ui.lastDeps
    THEN [sessionEffect(w, w.store.sessionId, shouldConnectWs(w.store))
              EXCEPT !.ui.lastDeps = EffectDeps(w.store)]
    ELSE w

\* The world w becomes the next state.
Becomes(w) ==
    /\ Len(w.sockets) <= MaxSockets
    /\ store' = w.store
    /\ conn' = w.conn
    /\ sockets' = w.sockets
    /\ timers' = w.timers
    /\ ui' = w.ui
    /\ obs' = w.obs

\* The world a handler and the render after it leave becomes the next state.
Commit(w0) == Becomes(Render(w0))

\* A local (non-event) change of the store.
Local(w, st) == [w EXCEPT !.store = st, !.obs.scenario = ScenarioAfterLocal(@)]

(* Socket callbacks and timers *)

\* The events that lengthen the streaming buffer.
Grows(data) == data.type \in {"generation_chunk", "critique_chunk"}

OnOpen ==
    \E s \in 1..Len(sockets) :
        /\ sockets[s].readyState = "CONNECTING"
        /\ Commit(onopen(World, s))

\* The server sends an event, naming one of the sessions `sids`.
OnMessage(events, sids) ==
    \E s \in 1..Len(sockets), data \in events, sid \in sids :
        /\ sockets[s].readyState = "OPEN"
        /\ Grows(data) => Len(store.streamingContent \o data.content) <= MaxLen
        /\ Commit(receive(World, s, stringify(For(data, sid))))

\* An event of an unknown type arrives.  The history flips a mark at each.
OnUnknown ==
    \E s \in 1..Len(sockets), data \in UnknownEvents :
        /\ sockets[s].readyState = "OPEN"
        /\ Commit([receive(World, s, stringify(data))
                      EXCEPT !.obs.unknownParity = ~@])

\* A text that does not parse arrives.  The history flips a mark at each and
\* notes the socket.
OnMalformed ==
    \E s \in 1..Len(sockets), text \in MalformedTexts :
        /\ sockets[s].readyState = "OPEN"
        /\ Commit([receive(World, s, text)
                      EXCEPT !.obs.dropParity = ~@, !.obs.droppedOn = s])

OnClose ==
    \E s \in 1..Len(sockets) :
        /\ sockets[s].readyState # "CLOSED"
        /\ Commit(onclose(World, s))

\* The transport reports an error on a socket.  The history flips a mark at
\* each.
OnError ==
    \E s \in 1..Len(sockets) :
        /\ sockets[s].readyState # "CLOSED"
        /\ Commit([onerror(World, s) EXCEPT !.obs.errorParity = ~@])

OnTimer ==
    \E t \in BagToSet(timers) :
        Commit(ontimer(World, t))

Unmount ==
    /\ ui.mounted
    /\ Commit([unmountCleanup(World) EXCEPT !.ui.mounted = FALSE])

(* TaskInput.handleSubmit: the click, then the answer of startReasoning. *)

HandleSubmit ==
    /\ ~ui.isSubmitting
    /\ store.status # "running"
    /\ ui.nextId <= MaxSessions
    /\ Commit([World EXCEPT !.ui.isSubmitting = TRUE])

SubmitOk ==
    /\ ui.isSubmitting
    /\ Commit([Local(World, setStatus(setSessionId(store, ui.nextId, TRUE), "running"))
                  EXCEPT !.ui.isSubmitting = FALSE, !.ui.nextId = @ + 1])

SubmitFail ==
    /\ ui.isSubmitting
    /\ Commit([Local(World, setStatus(store, "error")) EXCEPT !.ui.isSubmitting = FALSE])

(* ReasoningViewer: the session controls.  A button exists while the       *)
(* viewer is mounted and the status shows it.  `answered` tells whether    *)
(* the command's answer is awaited as a step of its own (PauseOk,          *)
(* PauseFail, ...) or taken to have succeeded, which changes nothing.      *)

\* handleStop.  While its request is in flight ui.pendingStop holds the
\* status the button was clicked in.
HandleStop(answered) ==
    /\ ui.mounted
    /\ store.sessionId # NoSession
    /\ store.status \in {"running", "paused"}
    /\ ui.pendingStop = <<>>
    /\ Commit([Local(World, setStatus(store, "stopped"))
                  EXCEPT !.ui.pendingStop = IF answered THEN <<store.status>> ELSE @])

StopOk ==
    /\ ui.pendingStop # <<>>
    /\ Commit([World EXCEPT !.ui.pendingStop = <<>>])

\* The catch of handleStop only logs.
StopFail ==
    /\ ui.pendingStop # <<>>
    /\ Commit([World EXCEPT !.ui.pendingStop = <<>>])

HandlePause(answered) ==
    /\ ui.mounted
    /\ store.sessionId # NoSession
    /\ store.status = "running"
    /\ ui.pendingPause < MaxInFlight
    /\ Commit([Local(World, setStatus(store, "paused"))
                  EXCEPT !.ui.pendingPause = IF answered THEN @ + 1 ELSE @])

PauseOk ==
    /\ ui.pendingPause > 0
    /\ Commit([World EXCEPT !.ui.pendingPause = @ - 1])

PauseFail ==
    /\ ui.pendingPause > 0
    /\ Commit([Local(World, setStatus(store, "running"))
                  EXCEPT !.ui.pendingPause = @ - 1])

HandleResume(answered) ==
    /\ ui.mounted
    /\ store.sessionId # NoSession
    /\ store.status = "paused"
    /\ ui.pendingResume < MaxInFlight
    /\ Commit([Local(World, setStatus(store, "running"))
                  EXCEPT !.ui.pendingResume = IF answered THEN @ + 1 ELSE @])

ResumeOk ==
    /\ ui.pendingResume > 0
    /\ Commit([World EXCEPT !.ui.pendingResume = @ - 1])

ResumeFail ==
    /\ ui.pendingResume > 0
    /\ Commit([Local(World, setStatus(store, "paused"))
                  EXCEPT !.ui.pendingResume = @ - 1])

(* ReasoningViewer: the browser goes offline or online.  The status is set *)
(* when the command has succeeded; the catch only logs.                    *)

HandleOffline ==
    /\ ui.mounted
    /\ store.sessionId # NoSession
    /\ store.status = "running"
    /\ ui.pendingOffline < MaxInFlight
    /\ Commit([World EXCEPT !.ui.pendingOffline = @ + 1])

OfflineOk ==
    /\ ui.pendingOffline > 0
    /\ Commit([Local(World, setStatus(store, "paused")) EXCEPT !.ui.pendingOffline = @ - 1])

OfflineFail ==
    /\ ui.pendingOffline > 0
    /\ Commit([World EXCEPT !.ui.pendingOffline = @ - 1])

HandleOnline ==
    /\ ui.mounted
    /\ store.sessionId # NoSession
    /\ store.status = "paused"
    /\ ui.pendingOnline < MaxInFlight
    /\ Commit([World EXCEPT !.ui.pendingOnline = @ + 1])

OnlineOk ==
    /\ ui.pendingOnline > 0
    /\ Commit([Local(World, setStatus(store, "running")) EXCEPT !.ui.pendingOnline = @ - 1])

OnlineFail ==
    /\ ui.pendingOnline > 0
    /\ Commit([World EXCEPT !.ui.pendingOnline = @ - 1])

HandleNewSession ==
    /\ ui.mounted
    /\ store.status \in {"completed", "stopped", "error"}
    /\ Commit(Local(World, reset(store)))

(* ReasoningViewer.handleRetryWithFeedback: the Retry button is shown with  *)
(* the final output of a completed or stopped session.  The handler sets   *)
(* the status and clears the iterations, then awaits startReasoning.       *)

HandleRetryWithFeedback ==
    /\ ui.mounted
    /\ store.status \in {"completed", "stopped"}
    /\ store.finalOutput # <<>>
    /\ ~ui.isRetrying
    /\ ui.nextId <= MaxSessions
    /\ Commit([Local(World, clearIterations(setStatus(store, "running")))
                  EXCEPT !.ui.isRetrying = TRUE])

RetryOk ==
    /\ ui.isRetrying
    /\ Commit([Local(World, setSessionId(store, ui.nextId, TRUE))
                  EXCEPT !.ui.isRetrying = FALSE, !.ui.nextId = @ + 1])

RetryFail ==
    /\ ui.isRetrying
    /\ Commit([Local(World, setStatus(store, "error")) EXCEPT !.ui.isRetrying = FALSE])

(* SessionManager.handleLoadSession: a stored session is fetched and       *)
(* replayed into the store through the store's own actions.                *)

\* The sessions the server has stored.  status, final_output and final_score
\* may be missing; a stored iteration has a generation and maybe a critique.
StoredSessions ==
    [id : Sessions,
     status : {<<>>, <<"completed">>, <<"stopped">>, <<"error">>},
     iterations : {<<>>, <<[generation |-> "Hello", critique |-> <<Critique(75)>>]>>},
     final_output : {<<>>, <<"Hello">>},
     final_score : {<<>>, <<75>>}]

\* session.iterations.forEach: iteration index (from 0) is replayed into st.
RECURSIVE ReplayIterations(_, _, _)
ReplayIterations(st, iterations, index) ==
    IF index >= Len(iterations)
    THEN st
    ELSE LET iter == iterations[index + 1]
             generated == completeGeneration(startGeneration(st, index), iter.generation)
         IN  ReplayIterations(
                 IF iter.critique # <<>> THEN completeCritique(generated, iter.critique[1])
                                         ELSE generated,
                 iterations, index + 1)

\* The body of handleLoadSession after the session has been fetched.
loadSession(st, session) ==
    LET cleared == setSessionId(clearIterations(st), session.id, FALSE)
        started == setStatus(cleared, IF session.status = <<>> THEN "completed"
                                                               ELSE session.status[1])
        replayed == ReplayIterations(started, session.iterations, 0)
    IN  IF session.final_output # <<>>
        THEN completeSession(replayed, session.final_output[1], ScoreOrZero(session.final_score))
        ELSE replayed

HandleLoadSession ==
    /\ ui.pendingLoad = <<>>
    /\ \E session \in StoredSessions :
           /\ session.id # store.sessionId
           /\ Commit([World EXCEPT !.ui.pendingLoad = <<session>>])

LoadOk ==
    /\ ui.pendingLoad # <<>>
    /\ Commit([Local(World, loadSession(store, ui.pendingLoad[1]))
                  EXCEPT !.ui.pendingLoad = <<>>])

\* The catch of handleLoadSession only logs.
LoadFail ==
    /\ ui.pendingLoad # <<>>
    /\ Commit([World EXCEPT !.ui.pendingLoad = <<>>])

(* ModelConfig: a model selector, enabled unless the status is running. *)

HandleModelChange ==
    /\ store.status # "running"
    /\ \E key \in ConfigKeys, value \in Models :
           Commit(Local(World, setConfig(store, [k \in {key} |-> value])))

\* The configuration of the 'fast' preset.
PresetConfigs ==
    {[generator_model |-> "gemini-3-flash-preview",
      critic_model |-> "gemini-3-flash-preview",
      refiner_model |-> "gemini-3-flash-preview"]}

\* A preset button, enabled unless the status is running.
HandlePresetClick ==
    /\ store.status # "running"
    /\ \E preset \in PresetConfigs : Commit(Local(World, setConfig(store, preset)))

\* What the task analysis may recommend.
AnalysisResults ==
    {[generator_model |-> "o3", critic_model |-> "claude-opus-4.5",
      refiner_model |-> "claude-3.7-sonnet"]}

\* analyzeTaskWithLLM: the request goes out while the task is being written,
\* the response sets the recommended models whenever it arrives.
AnalyzeTask ==
    /\ store.status = "idle"
    /\ ui.pendingAnalysis < MaxInFlight
    /\ Commit([World EXCEPT !.ui.pendingAnalysis = @ + 1])

AnalyzeOk ==
    /\ ui.pendingAnalysis > 0
    /\ \E result \in AnalysisResults :
           Commit([Local(World, setConfig(store, result))
                      EXCEPT !.ui.pendingAnalysis = @ - 1])

\* The rotation is computed for iteration i, by the store (what
\* startGeneration asks getRotatedModels) and by ModelTriad; the history keeps
\* the inputs and both results.
Rotate ==
    \E i \in 0..MaxRotation :
        Commit([World EXCEPT !.obs.rotation =
                    << [iteration |-> i, config |-> store.config,
                        rotated |-> getRotatedModels(store.config, i),
                        slots |-> ModelTriad(store.config, i)] >>])

---------------------------------------------------------------------------
(* Spec: the connection's life.  Sessions are submitted, paused, resumed,  *)
(* stopped and replaced, sockets open and close, timers fire, the viewer   *)
(* unmounts; commands are answered with success.                           *)

Next ==
    \/ OnOpen
    \/ OnMessage(ConnEvents, Sessions)
    \/ OnClose
    \/ OnTimer
    \/ Unmount
    \/ HandleSubmit
    \/ SubmitOk
    \/ SubmitFail
    \/ HandleStop(FALSE)
    \/ HandlePause(FALSE)
    \/ HandleResume(FALSE)
    \/ HandleNewSession

Spec == Init /\ [][Next]_vars

\* The first submission only.
SubmitFirst == ui.nextId = 1 /\ HandleSubmit

(* SpecStatus: the status of a session under events and commands whose     *)
(* answers (success or failure) arrive later.                              *)

NextStatus ==
    \/ SubmitFirst
    \/ SubmitOk
    \/ OnOpen
    \/ OnMessage(StatusEvents, {1})
    \/ OnClose
    \/ HandleStop(TRUE)
    \/ StopOk
    \/ StopFail
    \/ HandlePause(TRUE)
    \/ PauseOk
    \/ PauseFail
    \/ HandleResume(TRUE)
    \/ ResumeOk
    \/ ResumeFail
    \/ HandleOffline
    \/ OfflineOk
    \/ OfflineFail
    \/ HandleOnline
    \/ OnlineOk
    \/ OnlineFail

SpecStatus == Init /\ [][NextStatus]_vars

(* SpecStore: the reducer.  The first session is submitted, its socket     *)
(* opens, and every event is fed to it.                                    *)

NextStore ==
    \/ SubmitFirst
    \/ SubmitOk
    \/ OnOpen
    \/ OnMessage(StoreEvents, {1})

SpecStore == Init /\ [][NextStore]_vars

(* SpecMessages: what a socket can be sent.  The first session's socket     *)
(* receives events of known types, events of unknown types and texts that  *)
(* do not parse; it closes and reconnects.                                 *)

NextMessages ==
    \/ SubmitFirst
    \/ SubmitOk
    \/ OnOpen
    \/ OnMessage(StatusEvents, {1})
    \/ OnUnknown
    \/ OnMalformed
    \/ OnClose
    \/ OnError
    \/ OnTimer

SpecMessages == Init /\ [][NextMessages]_vars

(* SpecConfig: the configuration controls beside a session that is         *)
(* submitted, paused and resumed.                                          *)

NextConfig ==
    \/ SubmitFirst
    \/ SubmitOk
    \/ SubmitFail
    \/ HandlePause(FALSE)
    \/ HandleResume(FALSE)
    \/ HandleModelChange
    \/ HandlePresetClick
    \/ AnalyzeTask
    \/ AnalyzeOk

SpecConfig == Init /\ [][NextConfig]_vars

(* SpecRotation: the rotation of roles, for every configuration of the     *)
(* three models and every iteration up to MaxRotation.                     *)

NextRotation ==
    \/ HandleModelChange
    \/ Rotate

SpecRotation == Init /\ [][NextRotation]_vars

(* SpecSession: one session after another.  Tasks are submitted and        *)
(* retried, each session's socket opens, receives the events of a short    *)
(* session and closes.                                                     *)

NextSession ==
    \/ HandleSubmit
    \/ SubmitOk
    \/ OnOpen
    \/ OnMessage(SessionEvents, Sessions)
    \/ OnClose
    \/ HandleRetryWithFeedback
    \/ RetryOk
    \/ RetryFail

SpecSession == Init /\ [][NextSession]_vars

(* SpecModels: the models of an iteration.  The first session receives the *)
(* events that open and fill iterations, is paused and resumed, and the    *)
(* model selectors are used whenever they are enabled.                     *)

NextModels ==
    \/ SubmitFirst
    \/ SubmitOk
    \/ OnOpen
    \/ OnMessage(ModelEvents, {1})
    \/ HandlePause(FALSE)
    \/ HandleResume(FALSE)
    \/ HandleModelChange

SpecModels == Init /\ [][NextModels]_vars

(* SpecCritique: the critique phase.  The first session's socket receives  *)
(* the events that open an iteration, complete its generation, and start,  *)
(* stream and complete its critique.                                       *)

NextCritique ==
    \/ SubmitFirst
    \/ SubmitOk
    \/ OnOpen
    \/ OnMessage(CritiqueEvents, {1})

SpecCritique == Init /\ [][NextCritique]_vars

(* SpecLive: the connection of one session that is paused and resumed,     *)
(* with the progress the browser guarantees: a socket that is connecting   *)
(* opens, a socket that close() was called on gets its close callback, a   *)
(* timer that was set fires.  Nothing forces the user to act or an open    *)
(* socket to close.                                                        *)

\* The close callback of a socket on which close() was called.
CloseCallback ==
    \E s \in 1..Len(sockets) :
        /\ sockets[s].readyState = "CLOSING"
        /\ Commit(onclose(World, s))

NextLive ==
    \/ SubmitFirst
    \/ SubmitOk
    \/ OnOpen
    \/ OnClose
    \/ OnTimer
    \/ HandlePause(FALSE)
    \/ HandleResume(FALSE)

SpecLive ==
    /\ Init
    /\ [][NextLive]_vars
    /\ WF_vars(OnOpen)
    /\ WF_vars(CloseCallback)
    /\ WF_vars(OnTimer)

(* SpecHistory: the first session runs while stored sessions are loaded    *)
(* from the history.                                                       *)

NextHistory ==
    \/ SubmitFirst
    \/ SubmitOk
    \/ OnOpen
    \/ OnMessage(SessionEvents, {1})
    \/ OnClose
    \/ HandleLoadSession
    \/ LoadOk
    \/ LoadFail

SpecHistory == Init /\ [][NextHistory]_vars

---------------------------------------------------------------------------
(* Properties *)

Terminal == {"completed", "stopped", "error"}

\* This step is ws.onmessage applied to the event `data` on an open socket.
Delivered(data) ==
    \E s \in 1..Len(sockets) :
        /\ sockets[s].readyState = "OPEN"
        /\ Commit(receive(World, s, stringify(data)))

\* This step is the catch branch of handlePause or handleResume, when it
\* changes the status (the success branch changes nothing).
RolledBack ==
    /\ ui'.pendingPause < ui.pendingPause \/ ui'.pendingResume < ui.pendingResume
    /\ store'.status # store.status

SocketIds == 1..Len(sockets)

LiveSockets == {i \in SocketIds : Live(sockets[i])}

\* C1: in every reachable state at most one socket is OPEN or CONNECTING,
\* whatever the interleaving of connects, session changes, shouldConnect
\* flips, unmount, socket callbacks and reconnect timers.
C1_AtMostOneLiveSocket == Cardinality(LiveSockets) <= 1

\* A live socket for one session while the socket of another session is still
\* closing and a reconnection timer is pending.
C1_Witness ==
    /\ timers # EmptyBag
    /\ \E i \in LiveSockets : \E j \in SocketIds :
           sockets[j].readyState = "CLOSING" /\ sockets[j].sid # sockets[i].sid

\* C2: a terminal status (completed, stopped, error) is absorbing while the
\* session id stays bound: no inbound event and no rollback of a failed pause
\* or resume command changes it.
C2_TerminalAbsorbing ==
    [][(/\ store.status \in Terminal
        /\ store'.sessionId = store.sessionId
        /\ (RolledBack \/ \E data \in StatusEvents : Delivered(data)))
       => store'.status = store.status]_vars

C4_NoSocketForAbandonedSession ==
    \A i \in LiveSockets : sockets[i].sid = obs.requested

\* C5: when the session effect finds a socket held for a session other than
\* its target, it closes that socket, with the close marked intentional,
\* before it creates the socket of the target.
C5_CloseOldBeforeOpenNew ==
    LET e == obs.effect
    IN  (e.held # 0 /\ e.target # NoSession /\ e.heldSid # e.target) =>
            /\ ~Live(sockets[e.held])
            /\ \A j \in DOMAIN e.ops :
                   e.ops[j].op = "create" =>
                       \E i \in 1..(j - 1) :
                           e.ops[i] = [op |-> "close", sock |-> e.held, intentional |-> TRUE]

\* The effect switched from a socket that was still live (it is closing now)
\* to a new socket for the target.
C5_Witness ==
    LET e == obs.effect
    IN  /\ e.held # 0 /\ e.target # NoSession /\ e.heldSid # e.target
        /\ sockets[e.held].readyState = "CLOSING"
        /\ Len(e.ops) = 2 /\ e.ops[2].op = "create"
        /\ sockets[e.ops[2].sock].sid = e.target

Current(st) == st.iterations[st.currentIteration]

\* C6: generation_complete with content c, applied while an iteration is
\* open, leaves that iteration with generation exactly c and isGenerating
\* false, whatever chunks came before.
C6_CompleteIsAuthoritative ==
    [][\A data \in StoreEvents :
           (data.type = "generation_complete" /\ Delivered(data) /\ Current(store).present)
           => /\ store'.iterations[store.currentIteration].present
              /\ store'.iterations[store.currentIteration].generation = data.content
              /\ ~store'.iterations[store.currentIteration].isGenerating]_vars

Present(st) == {i \in IterIdx : st.iterations[i].present}

\* C7: the scenario session_started, generation_start{0}, chunk "Hel",
\* chunk "lo", generation_complete "Hello", critique_start,
\* critique_complete{7.5}, session_complete{"Hello", 7.5}, applied to the
\* initial store, yields exactly iteration 0 with generation "Hello", score
\* 7.5, both flags false, and status completed, finalOutput "Hello",
\* finalScore 7.5.
C7_Scenario ==
    obs.scenario = Len(Scenario) =>
        /\ Present(store) = {0}
        /\ store.iterations[0].number = 0
        /\ store.iterations[0].generation = "Hello"
        /\ store.iterations[0].critique = <<Critique(75)>>
        /\ ~store.iterations[0].isGenerating
        /\ ~store.iterations[0].isCritiquing
        /\ store.status = "completed"
        /\ store.finalOutput = <<"Hello">>
        /\ store.finalScore = <<75>>

\* The eight events of the scenario have been applied, in order, and nothing else.
C7_Witness == obs.scenario = Len(Scenario)

Flags(st) ==
    {<<i, "g">> : i \in {k \in IterIdx : st.iterations[k].present /\ st.iterations[k].isGenerating}}
    \cup {<<i, "c">> : i \in {k \in IterIdx : st.iterations[k].present /\ st.iterations[k].isCritiquing}}

\* C8: at most one isGenerating / isCritiquing flag is true across all the
\* iterations of the session.
C8_OneFlag == Cardinality(Flags(store)) <= 1

\* C9: every iteration whose critique is set has a non-empty generation.
C9_CritiqueAfterGeneration ==
    \A i \in Present(store) :
        store.iterations[i].critique # <<>> => store.iterations[i].generation # ""

\* C10: generation_chunk with content x only appends: the current iteration's
\* generation afterwards is its generation before, followed by x.
C10_ChunkAppends ==
    [][\A data \in StoreEvents :
           (/\ data.type = "generation_chunk"
            /\ Delivered(data)
            /\ Current(store).present
            /\ store'.iterations[store.currentIteration].present)
           => store'.iterations[store.currentIteration].generation
                  = Current(store).generation \o data.content]_vars

\* C11: a stray event leaves the Session Store unchanged: an event that names
\* a session other than the store's current one, or that arrives on a socket
\* opened for a session other than the one the connection is bound to.
C11_StrayEventsRejected ==
    [][\A data \in ConnEvents, sid \in Sessions :
           (/\ Delivered(For(data, sid))
            /\ \/ sid # store.sessionId
               \/ \A s \in SocketIds :
                      sockets[s].readyState = "OPEN"
                          => sockets[s].sid # conn.connectedSessionRef)
           => store' = store]_vars

\* The close callback of socket s runs in this step.
Closes(s) == sockets[s].readyState # "CLOSED" /\ sockets'[s].readyState = "CLOSED"

\* The four conditions of a reconnection, as the close callback of s finds them.
MayReconnect(s) ==
    /\ ~conn.isIntentionalCloseRef
    /\ store.status = "running"
    /\ conn.connectedSessionRef = sockets[s].sid
    /\ conn.reconnectAttempts < maxReconnectAttempts

\* C12: a close schedules a reconnection only if the close is not marked
\* intentional, the status is running, the connection is still bound to the
\* closing socket's session and reconnectAttempts is below 3; in every other
\* case nothing is scheduled and reconnectAttempts is unchanged.
C12_ReconnectOnlyWhenAllHold ==
    [][\A s \in SocketIds :
           Closes(s) =>
               /\ timers' # timers => MayReconnect(s)
               /\ ~MayReconnect(s) =>
                      /\ timers' = timers
                      /\ conn'.reconnectAttempts = conn.reconnectAttempts]_vars

\* A first socket closed and a reconnection was scheduled and made; the
\* second socket closed while the session was paused: nothing is scheduled
\* and the counter stays at 1.
C12_Witness ==
    /\ Len(sockets) = 2
    /\ \A s \in SocketIds : sockets[s].readyState = "CLOSED"
    /\ store.status = "paused"
    /\ conn.reconnectAttempts = 1
    /\ timers = EmptyBag

\* C13: a message of a type outside the 13 known ones leaves every field of
\* the Session Store, and the connection's binding, intentional-close flag and
\* reconnectAttempts, unchanged.
C13_UnknownTypeIgnored ==
    [][obs'.unknownParity # obs.unknownParity
           => /\ store' = store
              /\ conn' = conn
              /\ sockets' = sockets
              /\ timers' = timers]_vars

\* Unknown events were delivered to the open socket of a running session.
C13_Witness ==
    /\ obs.unknownParity
    /\ store.status = "running"
    /\ \E s \in SocketIds : sockets[s].readyState = "OPEN"
    /\ Present(store) = {0}

\* C14: a message that does not parse is dropped: the store, the refs, the
\* sockets (none is closed) and the timers (no reconnection) are unchanged, so
\* the socket goes on receiving.
C14_MalformedDropped ==
    [][obs'.dropParity # obs.dropParity
           => /\ store' = store
              /\ conn' = conn
              /\ sockets' = sockets
              /\ timers' = timers
              /\ sockets[obs'.droppedOn].readyState = "OPEN"]_vars

\* After a socket dropped a malformed message, a later event on the same
\* socket was applied: the session completed.
C14_Witness ==
    /\ obs.droppedOn # 0
    /\ obs.appliedAfterDrop
    /\ obs.completedOn = obs.droppedOn
    /\ store.status = "completed"
    /\ store.finalOutput = <<"Hello">>

\* C15: for the roster [generator_model, critic_model, refiner_model] and an
\* iteration i >= 0 the store picks the generator at index i mod 3 and the
\* critic at (i+1) mod 3 (the refiner is at (i+2) mod 3); the three indices
\* differ; the assignment at i+3 is the one at i; and ModelTriad shows the
\* same assignment as the store computes.
C15_Rotation ==
    obs.rotation # <<>> =>
        LET r == obs.rotation[1]
            i == r.iteration
            roster == <<r.config.generator_model, r.config.critic_model,
                        r.config.refiner_model>>
            g == i % 3
            c == (i + 1) % 3
            f == (i + 2) % 3
        IN  /\ r.rotated.generator = <<roster[g + 1]>>
            /\ r.rotated.critic = <<roster[c + 1]>>
            /\ Cardinality({g, c, f}) = 3
            /\ getRotatedModels(r.config, i + 3) = r.rotated
            /\ ModelTriad(r.config, i + 3) = r.slots
            /\ r.slots[g] = [value |-> r.rotated.generator[1], role |-> "Generator"]
            /\ r.slots[c] = [value |-> r.rotated.critic[1], role |-> "Critic"]
            /\ r.slots[f] = [value |-> roster[f + 1], role |-> "Refiner"]

\* Iteration 4 with the default models: Model B generates, Model C
\* criticises, Model A refines.
C15_Witness ==
    /\ obs.rotation # <<>>
    /\ obs.rotation[1].iteration = 4
    /\ obs.rotation[1].config = defaultConfig
    /\ obs.rotation[1].rotated = [generator |-> <<"o3">>, critic |-> <<"claude-opus-4.5">>]
    /\ obs.rotation[1].slots[0].role = "Refiner"
    /\ store.config.generator_model = "o3"

C17_SessionComplete ==
    [][/\ \A data \in StoreEvents :
              (data.type = "session_complete" /\ Delivered(data)) =>
                  /\ store'.finalOutput = <<data.content>>
                  /\ store'.finalScore = (IF data.score = <<>> THEN <<0>> ELSE data.score)
                  /\ store'.status = "completed"
                  /\ conn'.isIntentionalCloseRef
       /\ \A s \in SocketIds :
              (obs.completedOn = s /\ Closes(s)) => timers' = timers]_vars

\* C18: config changes only while the status is idle: in a state whose status
\* is running, paused, completed, stopped or error no step changes a field
\* of config.
C18_ConfigFrozen ==
    [][store.status # "idle" => store'.config = store.config]_vars

\* C19: a failed pause or resume command leaves the session in its last
\* confirmed status: running after a failed pause, paused after a failed
\* resume, whichever events arrived while the command was in flight, whether
\* the command came from a button or from the network detection; the failure
\* never ends the session.
C19_FailedCommandRollsBack ==
    [][/\ (PauseFail \/ OfflineFail) => store'.status = "running"
       /\ (ResumeFail \/ OnlineFail) => store'.status = "paused"]_vars

\* C20: a failed stop command rolls the status back to the one it had when
\* the stop was requested (running or paused).
C20_FailedStopRollsBack ==
    [][StopFail => store'.status = ui.pendingStop[1]]_vars

\* The fields of the store that describe the session.
SessionFields(st) ==
    [status |-> st.status, iterations |-> st.iterations,
     finalOutput |-> st.finalOutput, finalScore |-> st.finalScore]

\* C21: transport failures never change the session: the error and close
\* callbacks of a socket leave status, iterations, finalOutput and finalScore
\* unchanged; the error callback closes no socket and schedules nothing; the
\* close that finds the three reconnection attempts used up schedules nothing
\* and leaves the status as it was.
C21_TransportLeavesSession ==
    [][/\ \A s \in SocketIds :
              Closes(s) =>
                  /\ SessionFields(store') = SessionFields(store)
                  /\ conn.reconnectAttempts = maxReconnectAttempts =>
                         timers' = timers /\ conn' = conn
       /\ obs'.errorParity # obs.errorParity =>
              /\ store' = store
              /\ conn' = conn
              /\ sockets' = sockets
              /\ timers' = timers]_vars

\* The running session's sockets reported errors and closed four times in a
\* row: the three reconnections are used up, nothing is pending, the status
\* is still running.
C21_Witness ==
    /\ obs.errorParity
    /\ Len(sockets) = MaxSockets
    /\ \A s \in SocketIds : sockets[s].readyState = "CLOSED"
    /\ conn.reconnectAttempts = maxReconnectAttempts
    /\ timers = EmptyBag
    /\ store.status = "running"
    /\ Present(store) = {0}

\* C22: a new session never inherits state: in the step that binds a new
\* session id after a submission or a retry, the store has no iteration and
\* finalOutput and finalScore are null, so the first event of the new session
\* finds nothing of the old one.
C22_NewSessionStartsEmpty ==
    [][(store'.sessionId # store.sessionId /\ store'.sessionId # NoSession) =>
           /\ Present(store') = {}
           /\ store'.finalOutput = <<>>
           /\ store'.finalScore = <<>>]_vars

\* This step changes config and nothing else of the store.
ConfigChanged == store' # store /\ store' = [store EXCEPT !.config = store'.config]

\* C23: the generation_model and critique_model of an iteration are fixed
\* when generation_start creates it: an event (a later generation_start for
\* the same index included) or a change of config leaves both fields of every
\* iteration the store holds before and after as they were.
C23_ModelsFixed ==
    [][(ConfigChanged \/ \E data \in ModelEvents : Delivered(data)) =>
           \A i \in Present(store) \cap Present(store') :
               /\ store'.iterations[i].generation_model = store.iterations[i].generation_model
               /\ store'.iterations[i].critique_model = store.iterations[i].critique_model]_vars

\* The store after ws.onmessage has applied the event data to the store st.
Applied(st, data) == onmessage(Replay(st), [data |-> stringify(data)]).store

\* The iteration_complete events the reducer is fed.
IterationCompletes == {data \in StoreEvents : data.type = "iteration_complete"}

\* C24: iteration_complete is idempotent: in every reachable state, applying
\* an iteration_complete that carries a critique and a score twice in a row
\* leaves the store that applying it once leaves, and an iteration_complete
\* without critique or without score leaves the store as it is.
C24_IterationCompleteIdempotent ==
    \A data \in IterationCompletes :
        LET once == Applied(store, data)
        IN  IF data.critique = <<>> \/ data.score = <<>>
            THEN once = store
            ELSE Applied(once, data) = once

\* iteration_complete has closed iteration 0 while its generation was being
\* streamed: the text and the critique are set, both flags are down and the
\* streaming buffer still holds the chunks.
C24_Witness ==
    /\ store.iterations[0].present
    /\ store.iterations[0].generation = "Hello"
    /\ store.iterations[0].critique = <<Critique(75)>>
    /\ ~store.iterations[0].isGenerating
    /\ store.streamingType = "generation"
    /\ store.streamingContent = "Hel"

\* The events that carry a critique payload into the store.
CritiqueCarriers ==
    {data \in CritiqueEvents :
         /\ data.critique # <<>>
         /\ \/ data.type = "critique_complete"
            \/ data.type = "iteration_complete" /\ data.score # <<>>}

\* C25: critique_chunk never writes into an iteration: it leaves every
\* iteration as it is and only extends the streaming buffer; and the critique
\* of an iteration becomes non-null only in a step that applies
\* critique_complete or iteration_complete carrying a critique.
C25_CritiqueChunkOnlyStreams ==
    [][/\ \A data \in CritiqueEvents :
              (data.type = "critique_chunk" /\ Delivered(data)) =>
                  store' = [store EXCEPT !.streamingContent = @ \o data.content]
       /\ (\E i \in IterIdx :
               /\ store.iterations[i].critique = <<>>
               /\ store'.iterations[i].critique # <<>>)
              => \E data \in CritiqueCarriers : Delivered(data)]_vars

\* A critique is being streamed for iteration 0, whose generation is
\* complete: the buffer holds the chunks, the iteration has no critique yet.
C25_Witness ==
    /\ store.streamingType = "critique"
    /\ store.streamingContent = "Hello"
    /\ store.iterations[0].present
    /\ store.iterations[0].generation = "xyz"
    /\ store.iterations[0].critique = <<>>
    /\ store.iterations[0].isCritiquing

\* The open callback of socket s runs in this step.
Opens(s) == sockets[s].readyState = "CONNECTING" /\ sockets'[s].readyState = "OPEN"

\* The connection is bound to a session in this step, having been bound to
\* another one.
Rebinds ==
    /\ conn.connectedSessionRef # NoSession
    /\ conn'.connectedSessionRef # NoSession
    /\ conn'.connectedSessionRef # conn.connectedSessionRef

\* C26: reconnectAttempts is a bounded counter: it stays within 0..3, it is 0
\* right after a socket's open and right after the connection is bound to
\* another session id, and it grows only by one, in a close that schedules a
\* reconnection.
C26_BoundedCounter ==
    [][/\ conn'.reconnectAttempts \in 0..maxReconnectAttempts
       /\ (\E s \in SocketIds : Opens(s)) => conn'.reconnectAttempts = 0
       /\ Rebinds => conn'.reconnectAttempts = 0
       /\ conn'.reconnectAttempts > conn.reconnectAttempts =>
              /\ conn'.reconnectAttempts = conn.reconnectAttempts + 1
              /\ timers' # timers
              /\ \E s \in SocketIds : Closes(s)]_vars

Council == 0 - 1

\* The store holds the council iteration as its current one.
InCouncil(st) == st.currentIteration = Council /\ st.iterations[Council].present

\* C27: the council pre-phase is an iteration of its own: generation_start
\* with iteration -1 leaves the store holding iteration -1 as the current one,
\* with no model of the rotation assigned; every later event that is not a
\* generation_start leaves it held and current; generation_chunk and
\* generation_complete write their content into it.
C27_CouncilIteration ==
    [][\A data \in StoreEvents :
           Delivered(data) =>
               /\ (data.type = "generation_start" /\ data.iteration = Council) =>
                      /\ InCouncil(store')
                      /\ store'.iterations[Council].number = Council
                      /\ store'.iterations[Council].generation_model = <<>>
                      /\ store'.iterations[Council].critique_model = <<>>
               /\ (InCouncil(store) /\ data.type # "generation_start") =>
                      /\ InCouncil(store')
                      /\ data.type = "generation_chunk" =>
                             store'.iterations[Council].generation
                                 = store.streamingContent \o data.content
                      /\ data.type = "generation_complete" =>
                             store'.iterations[Council].generation = data.content]_vars

\* The socket the Connection Manager holds is open.
HeldOpen(c, socks) == c.wsRef # 0 /\ socks[c.wsRef].readyState = "OPEN"

\* The close callback of s runs while another socket is held and open.
LateClose(s) == Closes(s) /\ s # conn.wsRef /\ HeldOpen(conn, sockets)

\* C28: the connectivity flag tracks the bound socket: wsConnected is true
\* exactly when the socket the Connection Manager holds is OPEN; the late
\* close callback of a superseded socket, running while the new socket is
\* open, neither sets wsConnected to false nor schedules a reconnection.
C28_FlagTracksSocket ==
    [][/\ store'.wsConnected <=> HeldOpen(conn', sockets')
       /\ \A s \in SocketIds :
              LateClose(s) => store'.wsConnected /\ timers' = timers]_vars

\* The caller's flag is down: useReasoningWebSocket is given no session id or
\* shouldConnect false.
FlagDown == store.sessionId = NoSession \/ ~shouldConnectWs(store)

\* No socket is OPEN or CONNECTING and the connectivity flag is false.
Quiet == LiveSockets = {} /\ ~store.wsConnected

\* C29: whenever the caller's flag is down (no session id, a history view,
\* or a status other than idle and running) and stays down, eventually no
\* socket is OPEN or CONNECTING and wsConnected is false, and this remains so
\* for as long as the flag stays down.
C29_DownMeansQuiet ==
    /\ FlagDown ~> (Quiet \/ ~FlagDown)
    /\ [][(FlagDown /\ Quiet /\ FlagDown') => Quiet']_vars

\* C30: after a stored session has been loaded, the status of the store is
\* the stored session's status (completed when it has none), whatever
\* iterations and final output it has.
C30_LoadedStatus ==
    [][LoadOk =>
           store'.status = (IF ui.pendingLoad[1].status = <<>>
                            THEN "completed" ELSE ui.pendingLoad[1].status[1])]_vars

=============================================================================
